---- MODULE Spec2Model ----
(***************************************************************************)
(* A model of engine/data/dataloader.py of DEIM: the epoch-aware collate   *)
(* function BatchImageCollateFunction (set_epoch, apply_mixup, __call__)   *)
(* and generate_scales.                                                    *)
(*                                                                         *)
(* Floats are modelled as exact rationals <<n, d>> in lowest terms; an     *)
(* optional Python value (None / a missing attribute / a missing dict key) *)
(* is modelled as a sequence of length 0 or 1.  Tensors are modelled by    *)
(* what the claims observe of them: a box/label/area tensor is the         *)
(* sequence of its rows, each row named by the sample and position it      *)
(* came from; an image batch is, per row, the weighted source images it    *)
(* blends, and a spatial size.                                             *)
(***************************************************************************)
EXTENDS Integers, Sequences, FiniteSets, TLC

\* ------------------------------------------------------------------ bounds
\* set_epoch is called with epochs 0..MaxEpoch
MaxEpoch == 5
\* a batch holds 1..MaxBatch samples
MaxBatch == 2
\* a sample's target holds 0..MaxBoxes boxes
MaxBoxes == 1
\* concurrent model: the training loop makes at most MaxAdvances set_epoch calls
MaxAdvances == 2
\* construction model: base_size is 1..MaxBaseSize, and base_size_repeat is
\* None or 0..MaxBaseRepeat
MaxBaseSize == 640
MaxBaseRepeat == 4

\* ----------------------------------------------------------------- helpers
NoneV == <<>>
Some(x) == <<x>>
IsNone(o) == Len(o) = 0
Get(o) == o[1]
Last(s) == s[Len(s)]

RECURSIVE GCD(_, _)
GCD(a, b) == IF b = 0 THEN a ELSE GCD(b, a % b)

\* the rational n/d (n >= 0, d > 0) in lowest terms
Rat(n, d) == LET g == GCD(n, d) IN <<n \div g, d \div g>>
RatMul(a, b) == Rat(a[1] * b[1], a[2] * b[2])
RatLess(a, b) == a[1] * b[2] < b[1] * a[2]
Zero == <<0, 1>>

RECURSIVE Repeat(_, _)
Repeat(x, n) == IF n <= 0 THEN <<>> ELSE <<x>> \o Repeat(x, n - 1)

RECURSIVE Count(_, _)
Count(x, s) == IF s = <<>> THEN 0
               ELSE (IF s[1] = x THEN 1 ELSE 0) + Count(x, Tail(s))

Range(s) == {s[i] : i \in 1..Len(s)}

\* --------------------------------------------------------- generate_scales
\* int(base_size * 0.75 / 32) * 32: int() truncates, base_size >= 0
ScaleLow(base_size) == ((base_size * 3) \div (4 * 32)) * 32
\* int(base_size * 1.25 / 32) * 32
ScaleHigh(base_size) == ((base_size * 5) \div (4 * 32)) * 32

\* generate_scales with the last segment ascending like the first
generate_scales_AscendingTwice(base_size, base_size_repeat) ==
    LET scale_repeat == (base_size - ScaleLow(base_size)) \div 32
    IN  [i \in 1..scale_repeat |-> ScaleLow(base_size) + (i - 1) * 32]
        \o Repeat(base_size, base_size_repeat)
        \o [i \in 1..scale_repeat |->
               ScaleHigh(base_size) - (scale_repeat - i) * 32]

generate_scales(base_size, base_size_repeat) ==
    LET scale_repeat == (base_size - ScaleLow(base_size)) \div 32
    IN  [i \in 1..scale_repeat |-> ScaleLow(base_size) + (i - 1) * 32]
        \o Repeat(base_size, base_size_repeat)
        \o [i \in 1..scale_repeat |-> ScaleHigh(base_size) - (i - 1) * 32]

\* ------------------------------------------------------------------- state
VARIABLES
    \* attributes set by __init__ and never assigned again
    mixup_epochs,         \* list of ints
    original_mixup_prob,  \* rational
    gradual_mixup,        \* bool
    scales,               \* NoneV or Some(list of ints)
    stop_epoch,           \* int
    cuda_available,       \* torch.cuda.is_available()
    \* attributes that change
    self_epoch,           \* self._epoch: NoneV until set_epoch is first called
    mixup_prob,           \* self.mixup_prob, the effective probability
    print_info_flag,      \* self.print_info_flag
    \* the handler invocation in progress or just finished, as its caller sees it
    call,
    \* history of the set_epoch calls made so far
    ended,                \* some call had epoch >= mixup_epochs[-1]
    monotone,             \* no call had an epoch below the call before it
    \* threads of the concurrent model
    writer,               \* the training loop inside set_epoch
    reader                \* a worker inside __call__

cfgVars == <<mixup_epochs, original_mixup_prob, gradual_mixup, scales,
             stop_epoch, cuda_available>>
histVars == <<ended, monotone>>
concVars == <<writer, reader>>
vars == <<cfgVars, self_epoch, mixup_prob, print_info_flag, call, histVars,
          concVars>>

\* self.warm_up_epochs
warm_up_epochs == 3
\* stop_epoch when the argument is None
NoStopEpoch == 100000000

\* BaseCollateFunction.epoch
epoch == IF IsNone(self_epoch) THEN -1 ELSE Get(self_epoch)

Idle == [op |-> "idle"]
WriterIdle == [pc |-> "idle"]
ReaderIdle == [pc |-> "idle"]

\* --------------------------------------------------------------- __init__
\* the constructor arguments the model draws
MixupEpochsChoices == {<<2, 3, 4>>, <<0, 0>>, <<>>, <<3>>}
\* (mixup_prob, gradual_mixup)
MixupChoices == {<<Zero, TRUE>>, <<<<1, 2>>, TRUE>>, <<<<1, 2>>, FALSE>>}
\* (base_size, base_size_repeat, stop_epoch), the last two None or an int
MultiScaleChoices ==
    {<<64, NoneV, NoneV>>, <<64, Some(1), NoneV>>, <<64, Some(1), Some(4)>>}

InitAttrs(me, mp, gm, ms, cuda) ==
    /\ mixup_epochs = me
    /\ original_mixup_prob = mp
    /\ mixup_prob = mp
    /\ gradual_mixup = gm
    /\ scales = IF IsNone(ms[2]) THEN NoneV
                ELSE Some(generate_scales(ms[1], Get(ms[2])))
    /\ stop_epoch = IF IsNone(ms[3]) THEN NoStopEpoch ELSE Get(ms[3])
    /\ cuda_available = cuda
    /\ self_epoch = NoneV
    /\ print_info_flag = TRUE
    /\ call = Idle
    /\ ended = FALSE
    /\ monotone = TRUE
    /\ writer = WriterIdle
    /\ reader = ReaderIdle

\* the scheduler example: window [10, 20], probability 0.5, gradual, on a
\* machine without CUDA
ExampleEpochs == <<10, 20>>

Init ==
    \/ \E me \in MixupEpochsChoices, mx \in MixupChoices,
          ms \in MultiScaleChoices :
            InitAttrs(me, mx[1], mx[2], ms, TRUE)
    \/ InitAttrs(ExampleEpochs, <<1, 2>>, TRUE, <<64, NoneV, NoneV>>, FALSE)

\* the epochs the training loop passes to set_epoch: 0..MaxEpoch, and on to
\* the epoch after the window's end when the window ends later than that
EpochChoices ==
    0..(IF Len(mixup_epochs) > 0 /\ Last(mixup_epochs) >= MaxEpoch
        THEN Last(mixup_epochs) + 1 ELSE MaxEpoch)

\* -------------------------------------------------------------- set_epoch
\* BaseCollateFunction.set_epoch: what it prints for epoch e
BaseSetEpochLog(e) ==
    IF Len(mixup_epochs) >= 2
    THEN IF e = mixup_epochs[1] THEN <<"Activating">>
         ELSE IF e = Last(mixup_epochs) THEN <<"Deactivating">>
         ELSE <<>>
    ELSE <<>>

\* AdjustedProb with the ramp counted from 0: epochs_since_start / warm_up_epochs
AdjustedProb_FromZero(e) ==
    RatMul(original_mixup_prob, Rat(e - mixup_epochs[1], warm_up_epochs))

\* AdjustedProb with the ramp one step ahead:
\* (epochs_since_start + 2) / warm_up_epochs
AdjustedProb_Ahead(e) ==
    RatMul(original_mixup_prob, Rat((e - mixup_epochs[1]) + 2, warm_up_epochs))

\* original_mixup_prob * ((epochs_since_start + 1) / warm_up_epochs)
AdjustedProb(e) ==
    RatMul(original_mixup_prob, Rat((e - mixup_epochs[1]) + 1, warm_up_epochs))

\* the guard of the gradual branch, with self.mixup_prob = p
InGradualWindow(e, p) ==
    /\ gradual_mixup /\ RatLess(Zero, p)
    /\ Len(mixup_epochs) >= 2
    /\ mixup_epochs[1] <= e /\ e < Last(mixup_epochs)

\* self.mixup_prob after set_epoch(e), when it was p before
NewMixupProb(e, p) ==
    IF InGradualWindow(e, p)
    THEN IF e - mixup_epochs[1] < warm_up_epochs
         THEN AdjustedProb(e)
         ELSE original_mixup_prob
    ELSE p

\* what BatchImageCollateFunction.set_epoch prints after the base class's part
GradualLog(e, p) ==
    IF InGradualWindow(e, p) /\ NewMixupProb(e, p) # p
    THEN IF e - mixup_epochs[1] < warm_up_epochs
         THEN <<"Adjusting">> ELSE <<"FullProbability">>
    ELSE <<>>

ReachesEnd(e) == Len(mixup_epochs) >= 2 /\ e >= Last(mixup_epochs)

SetEpoch(e) ==
    /\ call.op = "idle"
    /\ self_epoch' = Some(e)
    /\ mixup_prob' = NewMixupProb(e, mixup_prob)
    /\ call' = [op |-> "set_epoch", e |-> e, epoch_before |-> epoch,
                prob_before |-> mixup_prob,
                log |-> BaseSetEpochLog(e) \o GradualLog(e, mixup_prob)]
    /\ ended' = (ended \/ ReachesEnd(e))
    /\ monotone' = (monotone /\ epoch <= e)
    /\ UNCHANGED <<cfgVars, print_info_flag, concVars>>

\* the handler has returned (or raised) and its caller has taken the outcome
Return ==
    /\ call.op # "idle"
    /\ call' = Idle
    /\ UNCHANGED <<cfgVars, self_epoch, mixup_prob, print_info_flag, histVars,
                   concVars>>

\* ------------------------------------------------------------- the batch
\* (H, W) of every image handed to __call__
InputSize == <<48, 80>>

\* the Target dict of the sample at position i of the batch: n annotations,
\* with a 'masks' entry iff m; no 'mixup' entry
Target(i, n, m) ==
    [boxes  |-> [j \in 1..n |-> <<"box", i, j>>],
     labels |-> [j \in 1..n |-> <<"label", i, j>>],
     area   |-> [j \in 1..n |-> <<"area", i, j>>],
     mixup  |-> NoneV,
     masks  |-> IF m THEN Some(InputSize) ELSE NoneV]

\* the target lists __call__ is handed: [x[1] for x in items]
\* which samples of a batch of N carry masks: none, all, only the first, all
\* but the first
MaskPatterns(N) == {{}, 1..N, {1}, 2..N}

Batches ==
    UNION {{[i \in 1..N |-> Target(i, cnt[i], i \in msk)] :
                cnt \in [1..N -> 0..MaxBoxes], msk \in MaskPatterns(N)} :
           N \in 1..MaxBatch}

\* torch.cat([x[0][None] for x in items], dim=0): row i is image i
Stack(N) == [rows |-> [i \in 1..N |-> << <<i, 100>> >>], size |-> InputSize]

\* random.random() and random.uniform(0.45, 0.55), the latter in hundredths
RandChoices == {<<1, 8>>, <<3, 4>>}
BetaChoices == {45, 52}

\* where a CUDA out-of-memory RuntimeError is raised in a call, if anywhere
FailPoints(N) ==
    {[at |-> a, k |-> 0] : a \in {"none", "release", "stack", "blend", "resize"}}
    \cup {[at |-> "merge", k |-> k] : k \in 1..(4 * N)}
    \cup {[at |-> "mask_resize", k |-> k] : k \in 1..N}

\* ------------------------------------------------------------ apply_mixup
\* shifted_targets = targets[-1:] + targets[:-1]: shifted_targets[i] IS the
\* dict targets[i-1] (cyclically), not a copy of it
ShiftedIndex(i, N) == IF i = 1 THEN N ELSE i - 1

\* images.mul_(beta).add_(images.roll(shifts=1, dims=0).mul_(1.0 - beta))
Blend(images, b) ==
    LET N == Len(images.rows)
    IN  [images EXCEPT !.rows =
            [i \in 1..N |-> << <<i, b>>, <<ShiftedIndex(i, N), 100 - b>> >>]]

\* MergeStep with an area assignment that keeps the target's own areas
MergeStep_OwnArea(ts, b, k) ==
    LET N == Len(ts)
        i == ((k - 1) \div 4) + 1
        f == (k - 1) % 4
        sh == ts[ShiftedIndex(i, N)]
    IN  CASE f = 0 -> [ts EXCEPT ![i].boxes = ts[i].boxes \o sh.boxes]
          [] f = 1 -> [ts EXCEPT ![i].labels = ts[i].labels \o sh.labels]
          [] f = 2 -> ts
          [] OTHER -> [ts EXCEPT ![i].mixup =
                          Some(Repeat(b, Len(ts[i].boxes))
                               \o Repeat(100 - b, Len(sh.boxes)))]

\* the k-th assignment of the merge loop (four per target, in source order),
\* on the dicts as they are when it runs
MergeStep(ts, b, k) ==
    LET N == Len(ts)
        i == ((k - 1) \div 4) + 1
        f == (k - 1) % 4
        sh == ts[ShiftedIndex(i, N)]
    IN  CASE f = 0 -> [ts EXCEPT ![i].boxes = ts[i].boxes \o sh.boxes]
          [] f = 1 -> [ts EXCEPT ![i].labels = ts[i].labels \o sh.labels]
          [] f = 2 -> [ts EXCEPT ![i].area = ts[i].area \o sh.area]
          [] OTHER -> [ts EXCEPT ![i].mixup =
                          Some(Repeat(b, Len(ts[i].boxes))
                               \o Repeat(100 - b, Len(sh.boxes)))]

RECURSIVE MergeUpTo(_, _, _)
MergeUpTo(ts, b, k) ==
    IF k = 0 THEN ts ELSE MergeStep(MergeUpTo(ts, b, k - 1), b, k)

\* self.epoch == self.mixup_epochs[-1] and self.print_info_flag
ClosedNow == epoch = Last(mixup_epochs) /\ print_info_flag

\* MixupCondition without the window's end: self.mixup_epochs[0] <= self.epoch
MixupCondition_NoEnd(draw) ==
    /\ RatLess(draw, mixup_prob)
    /\ mixup_epochs[1] <= epoch

\* MixupCondition without the draw: the window alone decides
MixupCondition_NoDraw(draw) ==
    /\ mixup_epochs[1] <= epoch /\ epoch < Last(mixup_epochs)

\* random.random() < self.mixup_prob and
\* self.mixup_epochs[0] <= self.epoch < self.mixup_epochs[-1]
MixupCondition(draw) ==
    /\ RatLess(draw, mixup_prob)
    /\ mixup_epochs[1] <= epoch /\ epoch < Last(mixup_epochs)

\* apply_mixup on the stacked images and the caller's target dicts; data_vis
\* is off.  draw is the value random.random() gave, when the call got that far
ApplyMixup(images, targets, draw, b, fail) ==
    LET skip == [images |-> images, targets |-> targets, raised |-> "none",
                 memops |-> <<>>, log |-> <<>>, flag |-> print_info_flag,
                 applied |-> FALSE, beta |-> NoneV, draw |-> NoneV]
    IN
    IF Len(mixup_epochs) = 0
    THEN [skip EXCEPT !.raised = "IndexError"]
    ELSE
    LET log == IF ClosedNow THEN <<"Closed">> ELSE <<>>
        flag == print_info_flag /\ ~ClosedNow
        seen == [skip EXCEPT !.log = log, !.flag = flag, !.draw = Some(draw)]
        n == 4 * Len(targets)
        done == IF fail.at = "merge" THEN fail.k - 1 ELSE n
    IN
    IF ~MixupCondition(draw) THEN seen
    ELSE IF fail.at = "blend"
    THEN [seen EXCEPT !.raised = "oom", !.applied = TRUE, !.beta = Some(b)]
    ELSE [seen EXCEPT
            !.images = Blend(images, b),
            !.targets = MergeUpTo(targets, b, done),
            !.raised = IF done < n THEN "oom" ELSE "none",
            !.memops = IF done < n THEN <<"gc.collect">>
                       ELSE <<"gc.collect", "gc.collect">>,
            !.applied = TRUE, !.beta = Some(b)]

\* ---------------------------------------------------------------- __call__
\* current_epoch + 1 == self.mixup_epochs[0], when there is a window
next_is_transition == Len(mixup_epochs) >= 2 /\ epoch + 1 = mixup_epochs[1]

\* gc.collect(); if torch.cuda.is_available(): torch.cuda.empty_cache()
ProactiveRelease ==
    IF next_is_transition
    THEN <<"gc.collect">> \o (IF cuda_available THEN <<"empty_cache">> ELSE <<>>)
    ELSE <<>>

\* ResizeActive without the stop epoch: self.scales is not None
ResizeActive_NoStop == ~IsNone(scales)

\* self.scales is not None and self.epoch < self.stop_epoch
ResizeActive == ~IsNone(scales) /\ epoch < stop_epoch

\* the targets the mask loop resizes before it stops: it stops at the first
\* target without 'masks' (KeyError), at the injected failure, or at the end
MaskLoopStop(targets, fail) ==
    LET N == Len(targets)
        stops == {k \in 1..N : \/ IsNone(targets[k].masks)
                               \/ (fail.at = "mask_resize" /\ fail.k = k)}
    IN  IF stops = {} THEN N + 1
        ELSE CHOOSE k \in stops : \A j \in stops : k <= j

\* the resize step on the images and targets apply_mixup returned
Resize(images, targets, sz, fail) ==
    LET N == Len(targets)
        stop == MaskLoopStop(targets, fail)
        resized == [k \in 1..N |->
                      IF k < stop THEN [targets[k] EXCEPT !.masks = Some(<<sz, sz>>)]
                      ELSE targets[k]]
        out == [images |-> images, targets |-> targets, raised |-> "none",
                size |-> NoneV]
    IN
    IF ~ResizeActive THEN out
    ELSE IF Len(Get(scales)) = 0 THEN [out EXCEPT !.raised = "IndexError"]
    ELSE IF fail.at = "resize" THEN [out EXCEPT !.raised = "oom", !.size = Some(sz)]
    ELSE IF IsNone(targets[1].masks)
    THEN [out EXCEPT !.images.size = <<sz, sz>>, !.size = Some(sz)]
    ELSE [out EXCEPT !.images.size = <<sz, sz>>, !.size = Some(sz),
                     !.targets = resized,
                     !.raised = IF stop = N + 1 THEN "NotImplementedError"
                                ELSE IF IsNone(targets[stop].masks) THEN "KeyError"
                                ELSE "oom"]

\* HandlerReclaim without the cache release
HandlerReclaim_NoRelease(raised) ==
    IF raised = "oom" THEN <<"gc.collect">> ELSE <<>>

\* the except clause: on a RuntimeError whose text holds "CUDA out of memory",
\* two prints, gc.collect(), torch.cuda.empty_cache(); then raise
HandlerReclaim(raised) ==
    IF raised = "oom" THEN <<"gc.collect", "empty_cache">> ELSE <<>>

HandlerLog(raised) == IF raised = "oom" THEN <<"OOM">> ELSE <<>>

\* the outcome of __call__(items): what it returns or raises, the caller's
\* dicts afterwards, and what it did on the way.  A returned batch is
\* (ret, items): the list it returns holds the caller's dicts themselves.
CollateOutcome(items, draw, b, sz, fail) ==
    LET N == Len(items)
        start == [op |-> "collate", items0 |-> items, items |-> items,
                  ret |-> NoneV, raised |-> "none", memops |-> ProactiveRelease,
                  log |-> <<>>, flag |-> print_info_flag, applied |-> FALSE,
                  beta |-> NoneV, draw |-> NoneV, size |-> NoneV,
                  epoch |-> epoch,
                  transition |-> next_is_transition]
        mix == ApplyMixup(Stack(N), items, draw, b, fail)
        mixed == [start EXCEPT !.items = mix.targets, !.raised = mix.raised,
                               !.memops = @ \o mix.memops, !.log = mix.log,
                               !.flag = mix.flag, !.applied = mix.applied,
                               !.beta = mix.beta, !.draw = mix.draw]
        rs == Resize(mix.images, mix.targets, sz, fail)
        body ==
            IF fail.at = "release" /\ next_is_transition /\ cuda_available
            THEN [start EXCEPT !.raised = "oom"]
            ELSE IF fail.at = "stack" THEN [start EXCEPT !.raised = "oom"]
            ELSE IF mix.raised # "none" THEN mixed
            ELSE [mixed EXCEPT !.items = rs.targets, !.raised = rs.raised,
                               !.size = rs.size,
                               !.ret = IF rs.raised = "none"
                                       THEN Some(rs.images) ELSE NoneV]
    IN  [body EXCEPT !.memops = @ \o HandlerReclaim(body.raised),
                     !.log = @ \o HandlerLog(body.raised)]

\* the sizes random.choice(self.scales) can give in a call with failure
\* point fail; 0 when the call chooses none
SizeChoices(fail) ==
    IF /\ ResizeActive /\ Len(Get(scales)) > 0
       /\ fail.at \notin {"release", "stack", "blend", "merge"}
    THEN Range(Get(scales)) ELSE {0}

\* whether this call takes the mixup branch, given its random.random() draw
Applies(draw) == Len(mixup_epochs) > 0 /\ MixupCondition(draw)

\* the values random.uniform can give; 0 when the call draws none
BetaDraws(draw) == IF Applies(draw) THEN BetaChoices ELSE {0}

\* the points of FailPoints this call executes: the places where a CUDA
\* out-of-memory error can be raised in it (none without a CUDA device)
Faults(items, draw) ==
    LET N == Len(items)
        resizing == Len(mixup_epochs) > 0 /\ ResizeActive /\ Len(Get(scales)) > 0
    IN  {f \in FailPoints(N) :
            \/ f.at = "none"
            \/ /\ cuda_available
               /\ \/ f.at = "release" /\ next_is_transition
                  \/ f.at = "stack"
                  \/ f.at \in {"blend", "merge"} /\ Applies(draw)
                  \/ f.at = "resize" /\ resizing
                  \/ /\ f.at = "mask_resize" /\ resizing
                     /\ \A j \in 1..f.k : ~IsNone(items[j].masks)}

\* Collate with a close that also writes the probability: the call that
\* prints "Mixup is closed" sets self.mixup_prob to 0
Collate_ClosesProb ==
    /\ call.op = "idle"
    /\ \E items \in Batches, draw \in RandChoices :
         \E b \in BetaDraws(draw), fail \in Faults(items, draw) :
          \E sz \in SizeChoices(fail) :
            LET out == CollateOutcome(items, draw, b, sz, fail)
            IN  /\ call' = [out EXCEPT !.flag = print_info_flag]
                /\ print_info_flag' = out.flag
                /\ mixup_prob' = IF out.flag # print_info_flag THEN Zero
                                 ELSE mixup_prob
    /\ UNCHANGED <<cfgVars, self_epoch, histVars, concVars>>

Collate ==
    /\ call.op = "idle"
    /\ \E items \in Batches, draw \in RandChoices :
         \E b \in BetaDraws(draw), fail \in Faults(items, draw) :
          \E sz \in SizeChoices(fail) :
            LET out == CollateOutcome(items, draw, b, sz, fail)
            IN  /\ call' = [out EXCEPT !.flag = print_info_flag]
                /\ print_info_flag' = out.flag
    /\ UNCHANGED <<cfgVars, self_epoch, mixup_prob, histVars, concVars>>

\* the training loop's call of set_epoch
AdvanceEpoch == \E e \in EpochChoices : SetEpoch(e)

Next == AdvanceEpoch \/ Collate \/ Return

Spec == Init /\ [][Next]_vars

\* ------------------------------------------------ threads: set_epoch, __call__
\* The same two handlers, one thread each, a step per read or write of the
\* attributes they share (self._epoch, self.mixup_prob): nothing in the source
\* makes either handler atomic.
\* A snapshot is (epoch, mixup_prob) as it is before or after a whole
\* set_epoch call.

\* the snapshot set_epoch(e) leads to, from probability p
SnapshotAfter(e, p) == <<e, NewMixupProb(e, p)>>

\* the snapshots a __call__ that starts now can be said to run under
CurrentSnapshots ==
    IF writer.pc = "idle" THEN {<<epoch, mixup_prob>>}
    ELSE {writer.before, SnapshotAfter(writer.e, mixup_prob)}

\* set_epoch(e) up to the base class's self._epoch = epoch
WriteEpoch(e) ==
    /\ writer.pc = "idle"
    /\ reader.pc # "idle" => Cardinality(reader.snaps) <= MaxAdvances
    /\ self_epoch' = Some(e)
    /\ writer' = [pc |-> "gradual", e |-> e, before |-> <<epoch, mixup_prob>>]
    /\ reader' = IF reader.pc = "idle" THEN reader
                 ELSE [reader EXCEPT
                         !.snaps = @ \cup {SnapshotAfter(e, mixup_prob)}]
    /\ UNCHANGED <<cfgVars, mixup_prob, print_info_flag, call, histVars>>

\* the rest of set_epoch: the gradual branch's self.mixup_prob = ...
WriteProb ==
    /\ writer.pc = "gradual"
    /\ mixup_prob' = NewMixupProb(writer.e, mixup_prob)
    /\ writer' = WriterIdle
    /\ UNCHANGED <<cfgVars, self_epoch, print_info_flag, call, histVars, reader>>

\* __call__: current_epoch = self.epoch
ReadEpochCall ==
    /\ reader.pc = "idle"
    /\ reader' = [pc |-> "closed", current_epoch |-> Some(epoch),
                  closed_epoch |-> NoneV, prob |-> NoneV, mixup_epoch |-> NoneV,
                  resize_epoch |-> NoneV, snaps |-> CurrentSnapshots]
    /\ UNCHANGED <<cfgVars, self_epoch, mixup_prob, print_info_flag, call,
                   histVars, writer>>

\* apply_mixup: if self.epoch == self.mixup_epochs[-1] and self.print_info_flag
ReadEpochClosed ==
    /\ reader.pc = "closed"
    /\ reader' = [reader EXCEPT !.pc = "prob", !.closed_epoch = Some(epoch)]
    /\ print_info_flag' = (print_info_flag /\ ~ClosedNow)
    /\ UNCHANGED <<cfgVars, self_epoch, mixup_prob, call, histVars, writer>>

\* apply_mixup: random.random() < self.mixup_prob; the epoch is read only if so
ReadProb ==
    /\ reader.pc = "prob"
    /\ \E draw \in RandChoices :
         reader' = [reader EXCEPT
                      !.pc = IF RatLess(draw, mixup_prob) THEN "window"
                             ELSE "resize",
                      !.prob = Some(mixup_prob)]
    /\ UNCHANGED <<cfgVars, self_epoch, mixup_prob, print_info_flag, call,
                   histVars, writer>>

\* apply_mixup: self.mixup_epochs[0] <= self.epoch < self.mixup_epochs[-1]
ReadEpochWindow ==
    /\ reader.pc = "window"
    /\ reader' = [reader EXCEPT !.pc = "resize", !.mixup_epoch = Some(epoch)]
    /\ UNCHANGED <<cfgVars, self_epoch, mixup_prob, print_info_flag, call,
                   histVars, writer>>

\* __call__: self.scales is not None and self.epoch < self.stop_epoch
ReadEpochResize ==
    /\ reader.pc = "resize"
    /\ reader' = [reader EXCEPT
                    !.pc = "done",
                    !.resize_epoch = IF IsNone(scales) THEN NoneV ELSE Some(epoch)]
    /\ UNCHANGED <<cfgVars, self_epoch, mixup_prob, print_info_flag, call,
                   histVars, writer>>

\* __call__ returns
ReaderReturn ==
    /\ reader.pc = "done"
    /\ reader' = ReaderIdle
    /\ UNCHANGED <<cfgVars, self_epoch, mixup_prob, print_info_flag, call,
                   histVars, writer>>

\* the training loop's thread
Advance == (\E e \in EpochChoices : WriteEpoch(e)) \/ WriteProb
\* a worker's thread
Worker == \/ ReadEpochCall \/ ReadEpochClosed \/ ReadProb \/ ReadEpochWindow
          \/ ReadEpochResize \/ ReaderReturn

InitConc == InitAttrs(<<1, 5>>, <<1, 2>>, TRUE, <<64, Some(1), Some(4)>>, TRUE)

NextConc == Advance \/ Worker

SpecConc == InitConc /\ [][NextConc]_vars

\* ------------------------------------------------ construction: __init__
\* The multi-scale part of __init__ on its own: the arguments base_size and
\* base_size_repeat as the constructor is entered, and self.scales as it
\* leaves.  The other attributes are those of the defaults.

\* the arguments of a constructor call not yet run
Arguments(b, r) == [op |-> "init", base_size |-> b, base_size_repeat |-> r]

BaseSizeChoices == 1..MaxBaseSize
BaseRepeatChoices == {NoneV} \cup {Some(k) : k \in 0..MaxBaseRepeat}

InitScales ==
    \E b \in BaseSizeChoices, r \in BaseRepeatChoices :
        /\ call = Arguments(b, r)
        /\ scales = NoneV
        /\ mixup_epochs = <<0, 0>>
        /\ original_mixup_prob = Zero
        /\ mixup_prob = Zero
        /\ gradual_mixup = TRUE
        /\ stop_epoch = NoStopEpoch
        /\ cuda_available = TRUE
        /\ self_epoch = NoneV
        /\ print_info_flag = TRUE
        /\ ended = FALSE
        /\ monotone = TRUE
        /\ writer = WriterIdle
        /\ reader = ReaderIdle

\* self.scales = generate_scales(base_size, base_size_repeat)
\*               if base_size_repeat is not None else None
Construct ==
    /\ call.op = "init"
    /\ scales' = IF IsNone(call.base_size_repeat) THEN NoneV
                 ELSE Some(generate_scales(call.base_size,
                                           Get(call.base_size_repeat)))
    /\ call' = [call EXCEPT !.op = "constructed"]
    /\ UNCHANGED <<mixup_epochs, original_mixup_prob, gradual_mixup, stop_epoch,
                   cuda_available, self_epoch, mixup_prob, print_info_flag,
                   histVars, concVars>>

NextScales == Construct

SpecScales == InitScales /\ [][NextScales]_vars

\* ================================================================= claims
\* the last handler call was __call__ and it ran the whole mixup branch and
\* returned a batch
MixupReturned == call.op = "collate" /\ call.applied /\ ~IsNone(call.ret)

\* C1: when mixup is applied, every target[i] ends with boxes, labels and
\* area equal to its original sequences followed by the original sequences
\* of target[(i-1) mod N], and nothing else.
C1_MergeOfOriginals ==
    MixupReturned =>
        \A i \in 1..Len(call.items) :
            LET o == call.items0[i]
                q == call.items0[ShiftedIndex(i, Len(call.items))]
                t == call.items[i]
            IN  /\ t.boxes = o.boxes \o q.boxes
                /\ t.labels = o.labels \o q.labels
                /\ t.area = o.area \o q.area

\* C2: when mixup is applied, every target's mixup weights are as many as its
\* merged boxes: beta once per original box of the target, then 1-beta once
\* per box appended to it.
C2_WeightsMatchBoxes ==
    MixupReturned =>
        \A i \in 1..Len(call.items) :
            LET own == Len(call.items0[i].boxes)
                all == Len(call.items[i].boxes)
                b == Get(call.beta)
            IN  /\ ~IsNone(call.items[i].mixup)
                /\ Len(Get(call.items[i].mixup)) = all
                /\ Get(call.items[i].mixup)
                     = Repeat(b, own) \o Repeat(100 - b, all - own)

\* C3: with the ramp enabled and original probability > 0, whatever calls
\* came before, after set_epoch(e) the effective probability is
\* original*(e-start+1)/warmup when start <= e < start+warmup and e < end,
\* and original when start+warmup <= e < end; for window [10,20], warmup 3,
\* original 1/2 that is 1/6, 1/3, 1/2 at 10, 11, 12 and 1/2 at 19.
C3_WarmupRamp ==
    (gradual_mixup /\ RatLess(Zero, original_mixup_prob)
        /\ Len(mixup_epochs) >= 2 /\ ~IsNone(self_epoch)) =>
        LET e == epoch
            start == mixup_epochs[1]
            end == Last(mixup_epochs)
        IN  /\ (start <= e /\ e < start + 3 /\ e < end) =>
                 mixup_prob = Rat(original_mixup_prob[1] * (e - start + 1),
                                  original_mixup_prob[2] * 3)
            /\ (start + 3 <= e /\ e < end) => mixup_prob = original_mixup_prob
            /\ (mixup_epochs = <<10, 20>> /\ original_mixup_prob = <<1, 2>>) =>
                 /\ e = 10 => mixup_prob = <<1, 6>>
                 /\ e = 11 => mixup_prob = <<1, 3>>
                 /\ e = 12 => mixup_prob = <<1, 2>>
                 /\ e = 19 => mixup_prob = <<1, 2>>

\* C3's case: in the example, set_epoch(11) after a later epoch's set_epoch
\* left the probability at 1/3
C3_Witness ==
    /\ mixup_epochs = <<10, 20>> /\ call.op = "set_epoch"
    /\ call.e = 11 /\ call.epoch_before = 19 /\ call.prob_before = <<1, 2>>
    /\ mixup_prob = <<1, 3>>

C5_OnePerCrossing ==
    (/\ call.op = "set_epoch" /\ monotone
     /\ Len(mixup_epochs) >= 2 /\ mixup_epochs[1] < Last(mixup_epochs)) =>
        LET start == mixup_epochs[1]
            end == Last(mixup_epochs)
        IN  /\ Count("Activating", call.log)
                 = IF call.epoch_before < start /\ start <= call.e THEN 1 ELSE 0
            /\ Count("Deactivating", call.log)
                 = IF call.epoch_before < end /\ end <= call.e THEN 1 ELSE 0

\* C6: set_epoch(e) called again with the same e leaves epoch and effective
\* probability as they were and emits no notification.
C6_Idempotent ==
    (call.op = "set_epoch" /\ call.epoch_before = call.e) =>
        /\ epoch = call.epoch_before
        /\ mixup_prob = call.prob_before
        /\ call.log = <<>>

\* the last handler call was __call__ and it raised CUDA out of memory
OomRaised == call.op = "collate" /\ call.raised = "oom"

\* C7, as claimed: when a CUDA out-of-memory error occurs in __call__, in any
\* epoch, the cache release runs exactly once in that call, the error is
\* re-raised and no batch is returned.
C7_ReclaimOncePerCall ==
    OomRaised =>
        /\ Count("empty_cache", call.memops) = 1
        /\ IsNone(call.ret)

\* C7, amended: when a CUDA out-of-memory error occurs in __call__, the
\* except clause's reclaim (gc.collect, then the cache release) runs exactly
\* once, as the call's last memory operations, the error is re-raised and no
\* batch is returned; the cache release runs once in the call, and twice in
\* the epoch just before the window's start, where the proactive release has
\* run before.
C7_HandlerReclaimsOnce ==
    OomRaised =>
        LET n == Len(call.memops)
        IN  /\ IsNone(call.ret)
            /\ n >= 2
            /\ call.memops[n - 1] = "gc.collect"
            /\ call.memops[n] = "empty_cache"
            /\ Count("empty_cache", call.memops)
                 = IF call.transition THEN 2 ELSE 1
            /\ Count("OOM", call.log) = 1

\* C7's case: out of memory while stacking in the epoch just before the
\* window's start, after the proactive release
C7_Witness ==
    /\ OomRaised /\ call.transition
    /\ mixup_epochs[1] < Last(mixup_epochs) /\ call.epoch + 1 = mixup_epochs[1]
    /\ call.memops = <<"gc.collect", "empty_cache", "gc.collect", "empty_cache">>

\* C8: when a CUDA out-of-memory error interrupts __call__ in the mixup
\* branch, nothing is returned and every Target the caller passed in still
\* has its boxes, labels and area of before the call and no mixup weights.
C8_NoPartialMerge ==
    (OomRaised /\ call.applied) =>
        /\ IsNone(call.ret)
        /\ call.items = call.items0

\* C9: if the resize step is active for the call and some target, at any
\* index, carries masks, then (no other failure coming first) __call__ fails
\* with NotImplementedError and returns no batch.
C9_MasksAlwaysRejected ==
    (/\ call.op = "collate"
     /\ ~IsNone(scales) /\ call.epoch < stop_epoch
     /\ \E i \in 1..Len(call.items0) : ~IsNone(call.items0[i].masks)
     /\ call.raised \notin {"oom", "IndexError"}) =>
        /\ call.raised = "NotImplementedError"
        /\ IsNone(call.ret)

\* C10: a __call__ that runs while set_epoch runs decides on one snapshot:
\* the probability and the epoch of its mixup decision, and the epoch of its
\* resize decision, are those of a single snapshot, of before or of after a
\* whole set_epoch call.
C10_ReadsOneSnapshot ==
    reader.pc = "done" =>
        \E s \in reader.snaps :
            /\ reader.prob = Some(s[2])
            /\ IsNone(reader.mixup_epoch) \/ reader.mixup_epoch = Some(s[1])
            /\ IsNone(reader.resize_epoch) \/ reader.resize_epoch = Some(s[1])

\* the current epoch lies in the mixup window: start <= epoch < end
InWindow ==
    /\ Len(mixup_epochs) >= 1
    /\ mixup_epochs[1] <= epoch /\ epoch < Last(mixup_epochs)

\* C11: a __call__ applies mixup only when the epoch lies in the window and
\* its random.random() draw was below the effective probability; a call that
\* does not apply it and returns hands back the stacked images unblended (at
\* the input size unless the resize step is active) and every target dict as
\* it was given, none with a 'mixup' entry.
C11_MixupOnlyInWindowOnDraw ==
    call.op = "collate" =>
        /\ call.applied =>
              /\ InWindow
              /\ ~IsNone(call.draw) /\ RatLess(Get(call.draw), mixup_prob)
        /\ (~call.applied /\ ~IsNone(call.ret)) =>
              /\ Get(call.ret).rows = Stack(Len(call.items0)).rows
              /\ ~ResizeActive => Get(call.ret) = Stack(Len(call.items0))
              /\ call.items = call.items0
              /\ \A i \in 1..Len(call.items) : IsNone(call.items[i].mixup)

\* a call inside the window, with a positive probability, whose draw fails:
\* a batch of two with boxes comes back
C11_Witness ==
    /\ call.op = "collate" /\ ~call.applied /\ ~IsNone(call.ret)
    /\ InWindow /\ RatLess(Zero, mixup_prob)
    /\ ~IsNone(call.draw) /\ ~RatLess(Get(call.draw), mixup_prob)
    /\ Len(call.items0) = 2 /\ Len(call.items0[1].boxes) = 1

\* C12: with a window of fewer than 2 entries no __call__ applies mixup, a
\* __call__ fails only for a reason that has nothing to do with the window
\* (device memory, masks), and neither handler prints a phase notification.
C12_ShortWindowInert ==
    Len(mixup_epochs) < 2 =>
        /\ call.op = "collate" =>
              /\ ~call.applied
              /\ call.raised \in {"none", "oom", "KeyError", "NotImplementedError"}
              /\ \A i \in 1..Len(call.log) : call.log[i] = "OOM"
        /\ call.op = "set_epoch" => call.log = <<>>

\* floor(base * num / 4 / 32) * 32, said without division: the multiple of 32
\* that is at most base * num / 4 and less than 32 below it
AlignedBelow(base, num) ==
    CHOOSE m \in 0..(2 * base) :
        m % 32 = 0 /\ 4 * m <= num * base /\ num * base < 4 * (m + 32)

\* C13: generate_scales(base, repeatCount) is, with low = floor(base*0.75/32)*32
\* and step = (base - low) div 32: low, low+32, ... (step values, ascending),
\* then base repeatCount times, then floor(base*1.25/32)*32 and on down by 32
\* (step values); its length is 2*step + repeatCount, and
\* generate_scales(640, 4) is the list of the example.
C13_ScalesLayout ==
    (call.op = "constructed" /\ ~IsNone(call.base_size_repeat)) =>
        LET base == call.base_size
            repeatCount == Get(call.base_size_repeat)
            low == AlignedBelow(base, 3)
            high == AlignedBelow(base, 5)
            step == (base - low) \div 32
            s == Get(scales)
        IN  /\ ~IsNone(scales)
            /\ Len(s) = 2 * step + repeatCount
            /\ \A i \in 1..step : s[i] = low + 32 * (i - 1)
            /\ \A i \in 1..repeatCount : s[step + i] = base
            /\ \A i \in 1..step :
                   s[step + repeatCount + i] = high - 32 * (i - 1)
            /\ (base = 640 /\ repeatCount = 4) =>
                   s = <<480, 512, 544, 576, 608, 640, 640, 640, 640,
                         800, 768, 736, 704, 672>>

\* the constructor has run with base_size 640 and base_size_repeat 4
C13_Witness ==
    /\ call.op = "constructed"
    /\ call.base_size = 640 /\ call.base_size_repeat = Some(4)
    /\ ~IsNone(scales) /\ Len(Get(scales)) = 14

\* C14: every element of the list generate_scales produces is a multiple of
\* 32, whatever base_size and base_size_repeat are.
C14_ScalesAligned ==
    (call.op = "constructed" /\ ~IsNone(scales)) =>
        \A i \in 1..Len(Get(scales)) : Get(scales)[i] % 32 = 0

\* C15: the images a __call__ returns have the size (s, s) of one member s of
\* self.scales when scales are configured and the epoch is below stop_epoch,
\* and the size of the input images otherwise.
C15_ResizeIffActive ==
    (call.op = "collate" /\ ~IsNone(call.ret)) =>
        LET sz == Get(call.ret).size
        IN  IF ~IsNone(scales) /\ call.epoch < stop_epoch
            THEN /\ \E s \in Range(Get(scales)) : sz = <<s, s>>
                 /\ call.size = Some(sz[1])
            ELSE sz = InputSize /\ IsNone(call.size)

\* scales are configured, and a call before the stop epoch has returned a
\* batch resized to the smallest of them
C15_Witness ==
    /\ call.op = "collate" /\ ~IsNone(call.ret)
    /\ ~IsNone(scales) /\ call.epoch < stop_epoch /\ stop_epoch < NoStopEpoch
    /\ Get(call.ret).size = <<32, 32>>

\* C16: a __call__, returning or raising, with or without mixup, leaves the
\* epoch, the mixup window, the original and the effective probability as
\* they were (the warm-up length is never assigned after __init__): a step
\* that changes one of them is a step of set_epoch.
C16_OnlySetEpochWrites ==
    [][/\ call'.op = "collate" =>
            UNCHANGED <<self_epoch, mixup_epochs, original_mixup_prob,
                        mixup_prob>>
       /\ (<<self_epoch, mixup_epochs, original_mixup_prob, mixup_prob>>' #
              <<self_epoch, mixup_epochs, original_mixup_prob, mixup_prob>>)
            => call'.op = "set_epoch"]_vars

\* a call that applied mixup during the warm-up and failed with the device
\* out of memory; the attributes are those set_epoch left
C16_Witness ==
    /\ call.op = "collate" /\ call.applied /\ call.raised = "oom"
    /\ self_epoch = Some(call.epoch)
    /\ RatLess(Zero, mixup_prob) /\ RatLess(mixup_prob, original_mixup_prob)

\* C17: in every target of a batch a __call__ returns, with or without
\* mixup, 'boxes', 'labels' and 'area' have the same length.
C17_EqualLengths ==
    (call.op = "collate" /\ ~IsNone(call.ret)) =>
        \A i \in 1..Len(call.items) :
            /\ Len(call.items[i].boxes) = Len(call.items[i].labels)
            /\ Len(call.items[i].boxes) = Len(call.items[i].area)

\* a returned mixup of two samples with a box each: the second target has
\* grown beyond the two boxes of the pair
C17_Witness ==
    /\ MixupReturned /\ Len(call.items) = 2
    /\ Len(call.items0[1].boxes) = 1 /\ Len(call.items0[2].boxes) = 1
    /\ Len(call.items[2].boxes) = 3 /\ Len(call.items[2].area) = 3

\* C18: mixup applied to a batch of one sample with k boxes returns boxes,
\* labels and area that are each the original sequence twice (length 2k),
\* and mixup weights that are beta k times and then 1 - beta k times.
C18_SelfBlend ==
    (MixupReturned /\ Len(call.items0) = 1) =>
        LET t0 == call.items0[1]
            t == call.items[1]
            k == Len(t0.boxes)
        IN  /\ t.boxes = t0.boxes \o t0.boxes
            /\ t.labels = t0.labels \o t0.labels
            /\ t.area = t0.area \o t0.area
            /\ t.mixup = Some(Repeat(Get(call.beta), k)
                              \o Repeat(100 - Get(call.beta), k))

\* C20: after any set_epoch calls, in any order, self.mixup_prob lies between
\* 0 and the configured probability, and is positive when the configured
\* probability is.
C20_ProbWithinConfigured ==
    /\ ~RatLess(mixup_prob, Zero)
    /\ ~RatLess(original_mixup_prob, mixup_prob)
    /\ RatLess(Zero, original_mixup_prob) => RatLess(Zero, mixup_prob)

\* set_epoch has gone back from a later epoch into the warm-up and has
\* lowered the probability below the configured one
C20_Witness ==
    /\ call.op = "set_epoch" /\ call.e < call.epoch_before
    /\ call.prob_before = original_mixup_prob
    /\ RatLess(Zero, mixup_prob) /\ RatLess(mixup_prob, original_mixup_prob)

====
